---- MODULE Spec2Model ----
(***************************************************************************)
(* A model of the data pipeline of meldataset.py: the MelDataset example   *)
(* loader (single-slot waveform cache, resampling, segment sampling), the  *)
(* process-wide mel basis / Hann window caches of mel_spectrogram, and the *)
(* corpus indexer (recursive_file_extract, get_dataset_filelist).          *)
(*                                                                         *)
(* A waveform is modelled by where it came from and how long it is: the    *)
(* file it was decoded from, the number of samples it holds, the rate of   *)
(* the file, and whether it went through scipy.signal.resample.  A file    *)
(* name is the position of the file in audio_files after construction.     *)
(***************************************************************************)
EXTENDS Integers, Sequences, FiniteSets

\* ------------------------------------------------------------------ bounds

\* Files of a dataset in the cache specification.
NumFiles == 2
\* Longest decoded waveform (samples) in the cache specification.
MaxWavLen == 4
\* Largest n_cache_reuse.
MaxReuse == 2
\* Longest audio buffer, segment_size, hop_size and precomputed mel (frames)
\* in the segment specification.
MaxAudio == 5
MaxSeg == 3
MaxHop == 2
MaxMel == 4

\* Sample rates a wav file or the configuration may have.
Rates == {22050, 44100}

VARIABLES
    \* MelDataset
    h,                  \* the constructor's arguments (segment_size, hop_size, ...)
    audio_files,        \* self.audio_files
    wav_disk,           \* file -> what scipy.io.wavfile.read returns for it
    mel_disk,           \* file -> frames of the precomputed <stem>.npy
    cached_wav,         \* self.cached_wav
    _cache_ref_count,   \* self._cache_ref_count
    item,               \* what the last __getitem__ call did and returned
    run                 \* cache hits since the last miss

dsVars == <<h, audio_files, wav_disk, mel_disk, cached_wav, _cache_ref_count, item, run>>

VARIABLES
    \* mel_spectrogram
    mel_basis,          \* the module's global mel_basis = {}
    hann_window,        \* the module's global hann_window = {}
    mel_call            \* what the last mel_spectrogram call did and used

melVars == <<mel_basis, hann_window, mel_call>>

VARIABLES
    \* get_dataset_filelist
    cls_pth,            \* h.cls_pth: the corpus config tree
    base_pth,           \* h.base_pth: the base paths
    num_validation,     \* h.num_validation, in tenths as the config file writes it
    fs,                 \* the directories on disk and the files they hold
    extracted,          \* what the last recursive_file_extract call returned
    lists               \* what the last get_dataset_filelist call returned

ixVars == <<cls_pth, base_pth, num_validation, fs, extracted, lists>>

vars == <<dsVars, melVars, ixVars>>

\* ------------------------------------------------------ MelDataset helpers

\* self.cached_wav = None
NoWav == [file |-> 0, len |-> 0, rate |-> 0, resampled |-> FALSE]

\* load_wav followed by audio / MAX_WAV_VALUE: the samples of the file, at
\* the file's own rate.
load_wav(filename) ==
    [file |-> filename, len |-> wav_disk[filename].len,
     rate |-> wav_disk[filename].rate, resampled |-> FALSE]

\* Python 3's round() of the quotient num / den: to nearest, ties to even.
PyRound(num, den) ==
    LET q == num \div den
        r == num % den
    IN  IF 2 * r < den THEN q
        ELSE IF 2 * r > den THEN q + 1
        ELSE IF q % 2 = 0 THEN q ELSE q + 1

\* number_of_samples = round(len(audio) * float(self.sampling_rate) / sampling_rate)
number_of_samples(len, target_rate, source_rate) ==
    PyRound(len * target_rate, source_rate)

\* scipy.signal.resample(audio, number_of_samples)
resample(audio, num) ==
    [file |-> audio.file, len |-> num, rate |-> audio.rate, resampled |-> TRUE]

\* if self._cache_ref_count == 0
CacheMissLate(count) == count <= 1
CacheMiss(count) == count = 0

\* The miss branch's buffer: resampled when the file's rate is not the target.
MissAudio(raw, target_rate) ==
    IF raw.rate # target_rate
    THEN resample(raw, number_of_samples(raw.len, target_rate, raw.rate))
    ELSE raw

\* math.ceil(self.segment_size / self.hop_size)
FramesFloor(segment_size, hop_size) == segment_size \div hop_size
frames_per_seg(segment_size, hop_size) == (segment_size + hop_size - 1) \div hop_size

\* len(x[lo:hi]) for a Python slice with 0 <= lo <= hi of a sequence of n items.
Min(a, b) == IF a < b THEN a ELSE b
SliceLen(n, lo, hi) == Min(hi, n) - Min(lo, n)

\* torch.nn.functional.pad(x, (0, amount), 'constant'): the zeros appended
\* on the right (a negative amount crops).
PadShort(size, target) == target - size - 1
PadAmount(size, target) == target - size

\* What __getitem__ did when nothing was called yet.
NoItem ==
    [called |-> FALSE, status |-> "none", index |-> 0, filename |-> 0,
     miss |-> FALSE, prev_count |-> 0, disk_reads |-> 0, audio |-> NoWav,
     lo |-> 0, hi |-> 0, pad |-> 0, seg_len |-> 0,
     mel_in |-> 0, mel_start |-> 0, mel_len |-> 0, draw_max |-> 0]

\* Lines 181-188: the segment of the non-fine-tuning branch.  The outcomes
\* are one per value random.randint can return.
SegmentPlain(n) ==
    IF ~h.split
    THEN {[status |-> "ok", lo |-> 0, hi |-> n, pad |-> 0, seg_len |-> n,
           mel_in |-> 0, mel_start |-> 0, mel_len |-> 0, draw_max |-> 0]}
    ELSE IF n >= h.segment_size
    THEN LET max_audio_start == n - h.segment_size
         IN  {[status |-> "ok", lo |-> audio_start, hi |-> audio_start + h.segment_size,
               pad |-> 0,
               seg_len |-> SliceLen(n, audio_start, audio_start + h.segment_size),
               mel_in |-> 0, mel_start |-> 0, mel_len |-> 0,
               draw_max |-> max_audio_start]
              : audio_start \in 0..max_audio_start}
    ELSE {[status |-> "ok", lo |-> 0, hi |-> n,
           pad |-> PadAmount(n, h.segment_size),
           seg_len |-> n + PadAmount(n, h.segment_size),
           mel_in |-> 0, mel_start |-> 0, mel_len |-> 0, draw_max |-> 0]}

\* Lines 195-211: the fine-tuning branch, with the mel loaded from the file
\* named after `filename`.  random.randint(0, b) raises ValueError when b < 0.
SegmentFineTuning(n, mel_frames) ==
    IF ~h.split
    THEN {[status |-> "ok", lo |-> 0, hi |-> n, pad |-> 0, seg_len |-> n,
           mel_in |-> mel_frames, mel_start |-> 0, mel_len |-> mel_frames,
           draw_max |-> 0]}
    ELSE LET fps == frames_per_seg(h.segment_size, h.hop_size)
         IN  IF n >= h.segment_size
             THEN IF mel_frames - fps - 1 < 0
                  THEN {[status |-> "ValueError", lo |-> 0, hi |-> 0, pad |-> 0,
                         seg_len |-> 0, mel_in |-> mel_frames, mel_start |-> 0,
                         mel_len |-> 0, draw_max |-> mel_frames - fps - 1]}
                  ELSE {[status |-> "ok",
                         lo |-> mel_start * h.hop_size,
                         hi |-> (mel_start + fps) * h.hop_size,
                         pad |-> 0,
                         seg_len |-> SliceLen(n, mel_start * h.hop_size,
                                              (mel_start + fps) * h.hop_size),
                         mel_in |-> mel_frames, mel_start |-> mel_start,
                         mel_len |-> SliceLen(mel_frames, mel_start, mel_start + fps),
                         draw_max |-> mel_frames - fps - 1]
                        : mel_start \in 0..(mel_frames - fps - 1)}
             ELSE {[status |-> "ok", lo |-> 0, hi |-> n,
                    pad |-> PadAmount(n, h.segment_size),
                    seg_len |-> n + PadAmount(n, h.segment_size),
                    mel_in |-> mel_frames, mel_start |-> 0,
                    mel_len |-> mel_frames + PadAmount(mel_frames, fps),
                    draw_max |-> 0]}

\* ------------------------------------------------------------- MelDataset

\* MelDataset.__getitem__(index): lines 160-219.  The cache fields are
\* assigned before the segment is drawn, so they keep their new values when
\* the draw raises.  self.mel_spec (lines 193 and 217) is a function of the
\* segment alone and changes no field; `item` records the segment it is given.
GetItem(index) ==
    LET filename == audio_files[index]
        miss == CacheMiss(_cache_ref_count)
        raw == load_wav(filename)
        audio == IF miss THEN MissAudio(raw, h.sampling_rate) ELSE cached_wav
        outcomes == IF ~h.fine_tuning
                    THEN SegmentPlain(audio.len)
                    ELSE SegmentFineTuning(audio.len, mel_disk[filename])
    IN  /\ cached_wav' = IF miss THEN raw ELSE cached_wav
        /\ _cache_ref_count' = IF miss THEN h.n_cache_reuse ELSE _cache_ref_count - 1
        /\ run' = IF miss THEN 0 ELSE run + 1
        /\ \E o \in outcomes :
             item' = [called |-> TRUE, status |-> o.status, index |-> index,
                      filename |-> filename, miss |-> miss,
                      prev_count |-> _cache_ref_count,
                      disk_reads |-> IF miss THEN 1 ELSE 0,
                      audio |-> audio,
                      lo |-> o.lo, hi |-> o.hi, pad |-> o.pad, seg_len |-> o.seg_len,
                      mel_in |-> o.mel_in, mel_start |-> o.mel_start,
                      mel_len |-> o.mel_len, draw_max |-> o.draw_max]
        /\ UNCHANGED <<h, audio_files, wav_disk, mel_disk>>
        /\ UNCHANGED <<melVars, ixVars>>

GetItemStep == \E index \in 1..Len(audio_files) : GetItem(index)

\* ---------------------------------------------------------- mel_spectrogram

\* A Python number, and the string str(fmax)+'_'+str(y.device): values of
\* different types, which Python never finds equal.
PyNum(v) == [type |-> "number", val |-> <<v>>]
PyStr(parts) == [type |-> "str", val |-> parts]
PyEq(a, b) == a.type = b.type /\ a.val = b.val

\* str(fmax)+'_'+str(y.device)
BasisKey(fmax, device) == PyStr(<<fmax, "_", device>>)

\* `x in d` for a dict d: some key of d equals x.
PyIn(x, d) == \E k \in DOMAIN d : PyEq(x, k)

\* The test of line 59, `fmax not in mel_basis`, negated: whether the call
\* finds its basis cached.  It looks the number fmax up among keys that are
\* strings.
BasisCachedByKey(fmax, device, basis) == PyIn(BasisKey(fmax, device), basis)
BasisCached(fmax, device, basis) == PyIn(PyNum(fmax), basis)

\* librosa.filters.mel(...) moved to the device: the matrix is a function of
\* these arguments, and is modelled by them.
librosa_mel_fn(sr, n_fft, n_mels, fmin, fmax, device) ==
    [sr |-> sr, n_fft |-> n_fft, n_mels |-> n_mels, fmin |-> fmin, fmax |-> fmax,
     device |-> device]

\* torch.hann_window(win_size).to(y.device)
torch_hann_window(win_size, device) == [win_size |-> win_size, device |-> device]

\* d[k] = v
DictSet(d, k, v) == [x \in DOMAIN d \cup {k} |-> IF x = k THEN v ELSE d[x]]

\* An empty dict.
EmptyDict == [x \in {} |-> 0]

\* The arguments mel_spectrogram is called with (y stands for its device).
MelArgs ==
    {a \in [n_fft : {1024, 2048}, num_mels : {80}, sampling_rate : Rates,
            hop_size : {256}, win_size : {1024, 2048}, fmin : {0},
            fmax : {8000, 11025}, device : {"cpu", "cuda:0"}]
       : a.win_size <= a.n_fft}

\* No basis: what a key that is not in mel_basis holds.
NoBasis == librosa_mel_fn(0, 0, 0, 0, 0, "")

NoMelCall ==
    [called |-> FALSE, args |-> 0, had_key |-> FALSE, prev |-> NoBasis,
     computed |-> FALSE, basis |-> NoBasis, window |-> torch_hann_window(0, ""),
     stft_ok |-> FALSE]

\* mel_spectrogram(y, n_fft, num_mels, sampling_rate, hop_size, win_size, fmin,
\* fmax): lines 52-73.  The result is the STFT of y under `window`, projected
\* through `basis`; torch.stft refuses a window whose length is not win_length.
mel_spectrogram(a) ==
    LET key == BasisKey(a.fmax, a.device)
        cached == BasisCached(a.fmax, a.device, mel_basis)
        mel == librosa_mel_fn(a.sampling_rate, a.n_fft, a.num_mels, a.fmin, a.fmax,
                              a.device)
        basis1 == IF cached THEN mel_basis ELSE DictSet(mel_basis, key, mel)
        window1 == IF cached THEN hann_window
                   ELSE DictSet(hann_window, a.device,
                                torch_hann_window(a.win_size, a.device))
    IN  /\ mel_basis' = basis1
        /\ hann_window' = window1
        /\ mel_call' = [called |-> TRUE, args |-> a,
                        had_key |-> key \in DOMAIN mel_basis,
                        prev |-> IF key \in DOMAIN mel_basis THEN mel_basis[key]
                                 ELSE NoBasis,
                        computed |-> ~cached,
                        basis |-> basis1[key],
                        window |-> window1[a.device],
                        stft_ok |-> window1[a.device].win_size = a.win_size]
        /\ UNCHANGED <<dsVars, ixVars>>

MelSpectrogramStep == \E a \in MelArgs : mel_spectrogram(a)

\* ------------------------------------------------- IEEE-754 double arithmetic

\* Bits of a double's significand.
DoubleMantissaBits == 53

\* A non-negative binary number: an integer part and the bits after the point.
Bin(whole, frac) == [ip |-> whole, fr |-> frac]

\* Bits needed to write the natural number n (0 for 0).
RECURSIVE BitLen(_)
BitLen(nat) == IF nat = 0 THEN 0 ELSE 1 + BitLen(nat \div 2)

\* Zeros before the first 1 of a bit sequence (its length when it has none).
LeadingZeros(zbits) ==
    LET ones == {jz \in 1..Len(zbits) : zbits[jz] = 1}
    IN  IF ones = {} THEN Len(zbits)
        ELSE (CHOOSE jz \in ones : \A kz \in ones : jz <= kz) - 1

\* fr plus one unit in its last place: <<carry out, bits>>.  The last 0
\* becomes 1 and the 1s after it become 0.
AddUlp(abits) ==
    LET zeros == {ja \in 1..Len(abits) : abits[ja] = 0}
        lastzero == IF zeros = {} THEN 0 ELSE CHOOSE ja \in zeros : \A ka \in zeros : ka <= ja
    IN  <<IF lastzero = 0 THEN 1 ELSE 0,
          [ja \in 1..Len(abits) |-> IF ja < lastzero THEN abits[ja] ELSE IF ja = lastzero THEN 1 ELSE 0]>>

\* x rounded to the nearest double, ties to even: the bits after the first
\* DoubleMantissaBits significant ones are dropped, and decide the rounding.
RoundToDouble(num) ==
    LET keep == IF num.ip > 0 THEN DoubleMantissaBits - BitLen(num.ip)
                ELSE LeadingZeros(num.fr) + DoubleMantissaBits
    IN  IF Len(num.fr) <= keep THEN num
        ELSE LET kept == SubSeq(num.fr, 1, keep)
                 half == num.fr[keep + 1]
                 sticky == \E jr \in (keep + 2)..Len(num.fr) : num.fr[jr] = 1
                 odd == IF keep = 0 THEN num.ip % 2 = 1 ELSE kept[keep] = 1
                 up == half = 1 /\ (sticky \/ odd)
                 bumped == AddUlp(kept)
             IN  IF up THEN Bin(num.ip + bumped[1], bumped[2]) ELSE Bin(num.ip, kept)

\* 2^i modulo q, by repeated squaring.
RECURSIVE PowMod2(_, _)
PowMod2(e, m) ==
    IF e = 0 THEN 1 % m
    ELSE LET half == PowMod2(e \div 2, m)
             sq == (half * half) % m
         IN  IF e % 2 = 0 THEN sq ELSE (2 * sq) % m

\* The first n bits of p / q (0 <= p < q) after the point, then one more bit
\* that is 1 when the quotient goes on: enough to round correctly.  Bit i is
\* decided by the remainder p * 2^(i-1) mod q of the long division.
QuotientBits(p, q, count) ==
    [iq \in 1..(count + 1) |->
        IF iq <= count
        THEN IF 2 * ((p * PowMod2(iq - 1, q)) % q) >= q THEN 1 ELSE 0
        ELSE IF (p * PowMod2(count, q)) % q = 0 THEN 0 ELSE 1]

\* The double a config file's decimal p / q (0 <= p <= q) parses to.
ParseDecimal(numer, denom) ==
    IF numer = denom THEN Bin(1, <<>>)
    ELSE RoundToDouble(Bin(0, QuotientBits(numer, denom, DoubleMantissaBits + BitLen(denom) + 1)))

Flip(fbits) == [jf \in 1..Len(fbits) |-> 1 - fbits[jf]]

\* The double 1 - v, for a double v in [0, 1].
OneMinus(val) ==
    IF val.ip >= 1 THEN Bin(0, <<>>)
    ELSE IF \A jo \in 1..Len(val.fr) : val.fr[jo] = 0 THEN Bin(1, <<>>)
    ELSE RoundToDouble(Bin(0, AddUlp(Flip(val.fr))[2]))

\* k times the bits tbits[lo..hi] plus the carry coming in from the right:
\* the carry going out on the left, and the bits.  The right half is worked
\* out first (its carry is needed, and is never negative), then the left.
RECURSIVE TimesBits(_, _, _, _, _)
TimesBits(k, tbits, lo, hi, carry) ==
    IF lo > hi THEN [out |-> carry, bits |-> <<>>]
    ELSE IF lo = hi
    THEN [out |-> (k * tbits[lo] + carry) \div 2, bits |-> <<(k * tbits[lo] + carry) % 2>>]
    ELSE LET mid == (lo + hi) \div 2
             right == TimesBits(k, tbits, mid + 1, hi, carry)
         IN  IF right.out >= 0
             THEN LET left == TimesBits(k, tbits, lo, mid, right.out)
                  IN  [out |-> left.out, bits |-> left.bits \o right.bits]
             ELSE right

\* The double n * x, for an integer n >= 0 (itself a double) and a double x.
TimesInt(factor, dbl) ==
    LET prod == TimesBits(factor, dbl.fr, 1, Len(dbl.fr), 0)
    IN  RoundToDouble(Bin(factor * dbl.ip + prod.out, prod.bits))

\* int(x) for a double x >= 0: truncation.
IntOf(d) == d.ip

\* int(len(filelist) * (1 - h.num_validation)) of lines 115 and 116, with
\* num_validation the double that tenths / 10 parses to.
SplitPoint(total, tenths) == IntOf(TimesInt(total, OneMinus(ParseDecimal(tenths, 10))))

\* --------------------------------------------------- corpus config and disk

\* Most files a directory on disk holds.
MaxDirFiles == 2

\* A config mapping is the sequence of its (key, value) items, in iteration
\* order; a value is a nested mapping or a list of subdirectory names.
Item(key, val) == [key |-> key, val |-> val]
Mapping(items) == [kind |-> "map", items |-> items]
List(names) == [kind |-> "list", items |-> names]

\* The configs the indexer is run on: {"a": ["x", "y"]}, {"a": {"b": ["x",
\* "y"]}} and {"a": {"b": ["x"]}}.
Configs ==
    { <<Item("a", List(<<"x", "y">>))>>,
      <<Item("a", Mapping(<<Item("b", List(<<"x", "y">>))>>))>>,
      <<Item("a", Mapping(<<Item("b", List(<<"x">>))>>))>> }

\* A path is the sequence of the pieces it was concatenated from.
CandidateDirs ==
    { <<"/data/", "a", "/", "x", "/">>, <<"/data/", "a", "/", "y", "/">>,
      <<"/data/", "a", "/", "b", "/", "x", "/">>,
      <<"/more/", "a", "/", "x", "/">> }

FileNames == <<"f1", "f2", "f3">>

\* os.path.isdir(fd)
isdir(fd) == fd \in fs.dirs

\* os.listdir(fd): the files of the directory, then a subdirectory.  The
\* number of files depends on the directory's name.
listdir(fd) ==
    [e \in 1..fs.count[fd[Len(fd) - 1]] |-> [name |-> FileNames[e], isfile |-> TRUE]]
        \o <<[name |-> "sub", isfile |-> FALSE]>>

\* [os.path.join(fd, f) for f in os.listdir(fd) if os.path.isfile(os.path.join(fd, f))]
RECURSIVE FilesOf(_, _, _)
FilesOf(fd, entries, at) ==
    IF at > Len(entries) THEN <<>>
    ELSE (IF entries[at].isfile THEN <<fd \o <<entries[at].name>>>> ELSE <<>>)
             \o FilesOf(fd, entries, at + 1)

\* Lines 86-92: the files of the children of a leaf list that are directories.
RECURSIVE LeafFiles(_, _, _)
LeafFiles(dir, children, j) ==
    IF j > Len(children) THEN <<>>
    ELSE LET fd == dir \o <<children[j], "/">>
         IN  (IF isdir(fd) THEN FilesOf(fd, listdir(fd), 1) ELSE <<>>)
                 \o LeafFiles(dir, children, j + 1)

\* `flist, llist = <returned list>` followed by `filename_list + flist` (lines
\* 82-83): unpacking a list that does not hold exactly two items raises
\* ValueError; of one that does, flist is its first item, a str, and adding a
\* str to a list raises TypeError.
UnpackAndAdd(returned, filename_list) ==
    IF Len(returned) # 2
    THEN [err |-> "ValueError", files |-> <<>>]
    ELSE [err |-> "TypeError", files |-> <<>>]

\* recursive_file_extract(base_pth, cls_pth): lines 76-94, from key number i
\* on, with filename_list so far.  An exception ends the call.
RECURSIVE ExtractFrom(_, _, _, _)
ExtractFrom(path, mapping, i, filename_list) ==
    IF i > Len(mapping) THEN [err |-> "none", files |-> filename_list]
    ELSE LET key == mapping[i].key
             value == mapping[i].val
         IN  IF value.kind = "map"
             THEN LET inner == ExtractFrom(path \o <<key, "/">>, value.items, 1, <<>>)
                      added == UnpackAndAdd(inner.files, filename_list)
                  IN  IF inner.err # "none" THEN inner
                      ELSE IF added.err # "none" THEN added
                      ELSE ExtractFrom(path, mapping, i + 1, added.files)
             ELSE ExtractFrom(path, mapping, i + 1,
                              filename_list \o LeafFiles(path \o <<key, "/">>, value.items, 1))

recursive_file_extract(path, mapping) == ExtractFrom(path, mapping, 1, <<>>)

\* Lines 108-113: the files of every base path, one after the other.
RECURSIVE AllBases(_, _)
AllBases(b, filelist) ==
    IF b > Len(base_pth) THEN [err |-> "none", files |-> filelist]
    ELSE LET got == recursive_file_extract(<<base_pth[b]>>, cls_pth)
         IN  IF got.err # "none" THEN got ELSE AllBases(b + 1, filelist \o got.files)

\* The orders random.shuffle can leave the items numbered in `left` in.
RECURSIVE Shuffles(_)
Shuffles(left) ==
    IF left = {} THEN {<<>>}
    ELSE UNION {{<<first>> \o rest : rest \in Shuffles(left \ {first})} : first \in left}

NoExtract == [done |-> FALSE, base |-> "", err |-> "none", files |-> <<>>]
NoLists ==
    [done |-> FALSE, err |-> "none", filelist |-> <<>>, training_files |-> <<>>,
     validation_files |-> <<>>]

\* One call recursive_file_extract(base, h.cls_pth) on the start-up config.
RecursiveFileExtract ==
    \E b \in 1..Len(base_pth) :
        LET got == recursive_file_extract(<<base_pth[b]>>, cls_pth)
        IN  /\ ~extracted.done
            /\ extracted' = [done |-> TRUE, base |-> base_pth[b], err |-> got.err,
                             files |-> got.files]
            /\ UNCHANGED <<cls_pth, base_pth, num_validation, fs, lists>>
            /\ UNCHANGED <<dsVars, melVars>>

\* get_dataset_filelist(h): lines 99-118, called once at start-up.
GetDatasetFilelist ==
    LET got == AllBases(1, <<>>)
        count == Len(got.files)
        cut == SplitPoint(count, num_validation)
    IN  /\ ~lists.done
        /\ IF got.err # "none"
           THEN lists' = [done |-> TRUE, err |-> got.err, filelist |-> <<>>,
                          training_files |-> <<>>, validation_files |-> <<>>]
           ELSE \E p \in Shuffles(1..count) :
                    LET filelist == [s \in 1..count |-> got.files[p[s]]]
                    IN  lists' = [done |-> TRUE, err |-> "none", filelist |-> filelist,
                                  training_files |-> SubSeq(filelist, 1, cut),
                                  validation_files |-> SubSeq(filelist, cut + 1, count)]
        /\ UNCHANGED <<cls_pth, base_pth, num_validation, fs, extracted>>
        /\ UNCHANGED <<dsVars, melVars>>

\* ----------------------------------------------------------- specifications

DatasetIdle ==
    /\ audio_files = <<>>
    /\ wav_disk = <<>>
    /\ mel_disk = <<>>
    /\ h = [segment_size |-> 1, hop_size |-> 1, sampling_rate |-> 22050,
            split |-> TRUE, n_cache_reuse |-> 0, fine_tuning |-> FALSE]
    /\ cached_wav = NoWav
    /\ _cache_ref_count = 0
    /\ item = NoItem
    /\ run = 0

MelIdle ==
    /\ mel_basis = EmptyDict
    /\ hann_window = EmptyDict
    /\ mel_call = NoMelCall

IndexIdle ==
    /\ cls_pth = <<>>
    /\ base_pth = <<>>
    /\ num_validation = 0
    /\ fs = [dirs |-> {}, count |-> [c \in {"x", "y"} |-> 0]]
    /\ extracted = NoExtract
    /\ lists = NoLists

\* MelDataset.__init__ (lines 122-158) for a dataset whose files differ in
\* rate and length: the cache specification.  A file holds at least two
\* samples, so that halving the rate leaves at least one.
InitCache ==
    /\ audio_files = [f \in 1..NumFiles |-> f]
    /\ wav_disk \in [1..NumFiles -> [rate : Rates, len : 2..MaxWavLen]]
    /\ mel_disk = [f \in 1..NumFiles |-> wav_disk[f].len]
    /\ h \in [segment_size : {2}, hop_size : {1}, sampling_rate : Rates,
              split : {TRUE}, n_cache_reuse : 0..MaxReuse, fine_tuning : BOOLEAN]
    /\ cached_wav = NoWav
    /\ _cache_ref_count = 0
    /\ item = NoItem
    /\ run = 0
    /\ MelIdle
    /\ IndexIdle

\* MelDataset.__init__ for one file at the target rate, of any length, with
\* any segment_size, hop_size and precomputed mel: the segment specification.
InitSegment ==
    /\ audio_files = <<1>>
    /\ wav_disk \in [{1} -> [rate : {22050}, len : 1..MaxAudio]]
    /\ mel_disk \in [{1} -> 0..MaxMel]
    /\ h \in [segment_size : 1..MaxSeg, hop_size : 1..MaxHop, sampling_rate : {22050},
              split : BOOLEAN, n_cache_reuse : 0..1, fine_tuning : BOOLEAN]
    /\ cached_wav = NoWav
    /\ _cache_ref_count = 0
    /\ item = NoItem
    /\ run = 0
    /\ MelIdle
    /\ IndexIdle

\* The module as imported: both caches empty.
InitMel ==
    /\ mel_basis = EmptyDict
    /\ hann_window = EmptyDict
    /\ mel_call = NoMelCall
    /\ DatasetIdle
    /\ IndexIdle

\* A config, its base paths, its validation fraction and a disk.
InitIndex ==
    /\ cls_pth \in Configs
    /\ base_pth \in {<<"/data/">>, <<"/data/", "/more/">>}
    /\ num_validation \in 0..10
    /\ fs \in [dirs : SUBSET CandidateDirs, count : [{"x", "y"} -> 0..MaxDirFiles]]
    /\ extracted = NoExtract
    /\ lists = NoLists
    /\ DatasetIdle
    /\ MelIdle

NextDataset == GetItemStep
NextMel == MelSpectrogramStep
NextIndex == RecursiveFileExtract \/ GetDatasetFilelist

SpecCache == InitCache /\ [][NextDataset]_vars
SpecSegment == InitSegment /\ [][NextDataset]_vars
SpecMel == InitMel /\ [][NextMel]_vars
SpecIndex == InitIndex /\ [][NextIndex]_vars

\* ------------------------------------------------------------------ claims

\* The elements of a sequence.
Range(seq) == {seq[at] : at \in 1..Len(seq)}

\* The leaf subdirectories a config tree declares under a path.
RECURSIVE DeclaredDirs(_, _)
DeclaredDirs(under, tree) ==
    UNION { IF tree[at].val.kind = "map"
            THEN DeclaredDirs(under \o <<tree[at].key, "/">>, tree[at].val.items)
            ELSE {under \o <<tree[at].key, "/", child, "/">>
                    : child \in Range(tree[at].val.items)}
            : at \in 1..Len(tree) }

\* The direct files of the declared leaf subdirectories that exist on disk.
DeclaredFiles(base, tree) ==
    UNION { {dir \o <<FileNames[e]>> : e \in 1..fs.count[dir[Len(dir) - 1]]}
            : dir \in DeclaredDirs(<<base>>, tree) \cap fs.dirs }

\* C1: recursive_file_extract returns, for any config tree (nested ones
\* included) and base path, exactly the direct files of every declared leaf
\* subdirectory that exists on disk, each once, and raises no error.
C1_ExtractReturnsDeclaredFiles ==
    extracted.done =>
        /\ extracted.err = "none"
        /\ Range(extracted.files) = DeclaredFiles(extracted.base, cls_pth)
        /\ Len(extracted.files) = Cardinality(DeclaredFiles(extracted.base, cls_pth))

\* C2: a __getitem__ call reads the file from disk and sets _cache_ref_count
\* to n_cache_reuse exactly when the count was 0 before it; otherwise it reads
\* nothing and lowers the count by 1.  The count stays within 0..n_cache_reuse
\* and the hits since the last miss plus the count make n_cache_reuse, so a
\* miss comes after exactly n_cache_reuse hits.
C2_CacheReuse ==
    /\ _cache_ref_count \in 0..h.n_cache_reuse
    /\ item.called =>
        /\ (item.disk_reads = 1) <=> (item.prev_count = 0)
        /\ item.disk_reads \in {0, 1}
        /\ item.disk_reads = 1 =>
              /\ _cache_ref_count = h.n_cache_reuse
              /\ cached_wav.file = item.filename
              /\ run = 0
        /\ item.disk_reads = 0 => _cache_ref_count = item.prev_count - 1
        /\ run + _cache_ref_count = h.n_cache_reuse

\* C2 witness: the last of n_cache_reuse = 2 hits after a miss.
C2_Witness ==
    /\ item.called /\ item.disk_reads = 0
    /\ h.n_cache_reuse = 2 /\ run = 2 /\ _cache_ref_count = 0

\* C3: when the rate of the decoded file differs from the target rate, the
\* waveform passed downstream is the resampled one, of round(L * target /
\* source) samples, on a hit as on a miss.
C3_ResampledDownstream ==
    item.called /\ item.audio.rate # h.sampling_rate =>
        /\ item.audio.resampled
        /\ item.audio.len = number_of_samples(wav_disk[item.audio.file].len,
                                              h.sampling_rate, item.audio.rate)

\* C4 as claimed: with split enabled the returned segment has exactly
\* segment_size samples in either mode, cut when the audio is long enough and
\* zero-padded on the right when it is not.
C4_SegmentExactlyS ==
    item.called /\ item.status = "ok" /\ h.split =>
        /\ item.seg_len = h.segment_size
        /\ item.audio.len >= h.segment_size => item.pad = 0
        /\ item.audio.len < h.segment_size =>
              item.pad = h.segment_size - item.audio.len

\* C4 as amended: with split enabled the returned segment has exactly
\* segment_size samples, cut from inside the buffer or zero-padded on the
\* right, in non-fine-tuning mode, and in fine-tuning mode when the audio is
\* shorter than segment_size or when hop_size divides segment_size and the
\* drawn slice ends inside the buffer.
C4_SegmentLength ==
    item.called /\ item.status = "ok" /\ h.split =>
        LET len == item.audio.len
            covered == \/ ~h.fine_tuning
                       \/ len < h.segment_size
                       \/ h.segment_size % h.hop_size = 0 /\ item.hi <= len
        IN  covered =>
              /\ item.seg_len = h.segment_size
              /\ len >= h.segment_size =>
                    /\ item.pad = 0
                    /\ item.hi - item.lo = h.segment_size
                    /\ 0 <= item.lo /\ item.hi <= len
              /\ len < h.segment_size =>
                    /\ item.lo = 0 /\ item.hi = len
                    /\ item.pad = h.segment_size - len

\* C4 witness: a fine-tuning segment cut from the middle of the buffer.
C4_Witness ==
    /\ item.called /\ item.status = "ok" /\ h.split /\ h.fine_tuning
    /\ item.audio.len >= h.segment_size
    /\ h.segment_size % h.hop_size = 0 /\ item.hi <= item.audio.len
    /\ item.lo > 0

\* ceil(a / b) for naturals, from its definition.
CeilOf(a, b) == CHOOSE c \in 0..a : c * b >= a /\ (c - 1) * b < a

\* C5: get_dataset_filelist returns the first floor(N * (1 - num_validation))
\* items of the shuffled list as training and the rest as validation:
\* training followed by validation is the shuffled list.
C5_SplitSizes ==
    lists.done /\ lists.err = "none" =>
        LET total == Len(lists.filelist)
            head == (total * (10 - num_validation)) \div 10
        IN  /\ Len(lists.training_files) = head
            /\ Len(lists.validation_files) = total - head
            /\ lists.training_files \o lists.validation_files = lists.filelist
            /\ Range(lists.training_files) \cap Range(lists.validation_files) = {}

\* C6: a mel_spectrogram call whose (fmax, device) key is already in
\* mel_basis computes no basis and leaves the entry as it was.
C6_BasisReused ==
    mel_call.called /\ mel_call.had_key =>
        /\ ~mel_call.computed
        /\ mel_call.basis = mel_call.prev

\* C7 as claimed: in fine-tuning mode with split and audio of at least
\* segment_size samples, every draw returns ceil(segment_size / hop_size) mel
\* frames and that many times hop_size samples, both slices inside their
\* buffers.
C7_FineTuningAlignment ==
    /\ item.called /\ item.status = "ok" /\ h.fine_tuning /\ h.split
    /\ item.audio.len >= h.segment_size
    =>  LET frames == CeilOf(h.segment_size, h.hop_size)
        IN  /\ item.mel_len = frames
            /\ item.seg_len = frames * h.hop_size
            /\ item.hi <= item.audio.len
            /\ item.mel_start + frames <= item.mel_in

\* C7 as amended: the same, provided the mel does not reach past the audio,
\* (mel_frames - 1) * hop_size <= audio length.
C7_FineTuningAlignmentWithinAudio ==
    /\ item.called /\ item.status = "ok" /\ h.fine_tuning /\ h.split
    /\ item.audio.len >= h.segment_size
    /\ (item.mel_in - 1) * h.hop_size <= item.audio.len
    =>  LET frames == CeilOf(h.segment_size, h.hop_size)
        IN  /\ item.mel_len = frames
            /\ item.seg_len = frames * h.hop_size
            /\ item.lo = item.mel_start * h.hop_size
            /\ item.hi = (item.mel_start + frames) * h.hop_size
            /\ item.hi <= item.audio.len
            /\ item.mel_start + frames <= item.mel_in

\* C7 witness: a draw of a later start frame, with hop_size not dividing
\* segment_size, of a mel that stays within the audio.
C7_Witness ==
    /\ item.called /\ item.status = "ok" /\ h.fine_tuning /\ h.split
    /\ item.audio.len >= h.segment_size
    /\ (item.mel_in - 1) * h.hop_size <= item.audio.len
    /\ h.segment_size % h.hop_size # 0
    /\ item.mel_start > 0

\* C8: every random start-offset draw is over a non-empty range, so no call
\* fails with a negative-range error.
C8_DrawRangeNonEmpty ==
    item.called => item.draw_max >= 0 /\ item.status # "ValueError"

\* C9: the basis and the window a mel_spectrogram call uses are those of its
\* own arguments, whatever earlier calls left in mel_basis and hann_window.
C9_HistoryIndependent ==
    mel_call.called =>
        LET a == mel_call.args
        IN  /\ mel_call.basis = librosa_mel_fn(a.sampling_rate, a.n_fft, a.num_mels,
                                               a.fmin, a.fmax, a.device)
            /\ mel_call.window = torch_hann_window(a.win_size, a.device)
            /\ mel_call.stft_ok

\* C9 witness: a call that found, under its key, a basis made for another
\* n_fft.
C9_Witness ==
    /\ mel_call.called /\ mel_call.had_key
    /\ mel_call.prev.n_fft # mel_call.args.n_fft

\* C10: the waveform of a returned example was decoded from
\* audio_files[index], the file the example names.
C10_AudioOfNamedFile ==
    item.called =>
        /\ item.filename = audio_files[item.index]
        /\ item.audio.file = item.filename

====
